---- MODULE Spec2Model ----
(***************************************************************************)
(* Model of the dimred pipeline: the data cleaner, the scaler, the         *)
(* embedding and cluster dispatchers, the cluster-membership colorizer and *)
(* the hard-cluster plot, as written in src/keyfi/dimred.py and            *)
(* src/dimred/dimred_interactive.py.                                       *)
(*                                                                         *)
(* A table (pandas DataFrame) is a record                                  *)
(*   [columns |-> sequence of column names,                                *)
(*    rows    |-> sequence of [label |-> row label, cell |-> name -> value]*)
(* An optional argument (None or a list) is [some |-> BOOLEAN, v |-> list].*)
(***************************************************************************)
EXTENDS Integers, Sequences, FiniteSets, TLC

VARIABLES
  data,       \* the table the caller holds
  data0,      \* the table the caller held when the last call was made
  call,       \* the last call: the function and its arguments
  result,     \* what the last call returned or raised
  calls,      \* the calls the last embed_data made to its collaborators, in order
  clusterer   \* the clusterer handle the caller holds

vars == <<data, data0, call, result, calls, clusterer>>

(***************************************************************************)
(* Bounds of the model.                                                    *)
(***************************************************************************)
MaxRows == 3

(***************************************************************************)
(* Generic helpers on sequences.                                           *)
(***************************************************************************)
Range(s) == {s[i] : i \in 1..Len(s)}

RECURSIVE SelectSeqBy(_, _)
\* the subsequence of s (in order) of the elements that are in the set keep
SelectSeqBy(s, keep) ==
  IF s = <<>> THEN <<>>
  ELSE IF Head(s) \in keep THEN <<Head(s)>> \o SelectSeqBy(Tail(s), keep)
       ELSE SelectSeqBy(Tail(s), keep)

None == [some |-> FALSE, v |-> <<>>]
Some(list) == [some |-> TRUE, v |-> list]

(***************************************************************************)
(* Tables.                                                                 *)
(***************************************************************************)
Universe ==
  <<"A", "Points:0", "Points:1", "Points:2", "vtkGhostType", "U:0", "U:1", "U:2", "All">>

ColumnId(c) == CHOOSE i \in 1..Len(Universe) : Universe[i] = c

\* the value the mesh holds for column c of the sample with original row id r
CellValue(c, r) == 10 * r + ColumnId(c)

EmptyTable == [columns |-> <<>>, rows |-> <<>>]

Labels(t) == [i \in 1..Len(t.rows) |-> t.rows[i].label]

\* the column sets of the input tables: each group of columns present or not
ScalarGroups == {{}, {"A"}}
PointsGroups == {{}, {"Points:0", "Points:1", "Points:2"}}
GhostGroups == {{}, {"vtkGhostType"}}
VectorGroups == {{}, {"U:2"}, {"U:0", "U:1"}, {"U:0", "U:1", "U:2"}}

ColumnSets ==
  {a \cup p \cup g \cup u : a \in ScalarGroups, p \in PointsGroups,
                            g \in GhostGroups, u \in VectorGroups}

\* a freshly imported table: n rows labelled 0..n-1, ghost flags as given
NewTable(cols, n, ghost) ==
  [columns |-> SelectSeqBy(Universe, cols),
   rows |-> [i \in 1..n |->
              [label |-> i - 1,
               cell |-> [c \in cols |->
                          IF c = "vtkGhostType" THEN ghost[i]
                          ELSE CellValue(c, i - 1)]]]]

Tables ==
  UNION {{NewTable(cols, n, ghost) : cols \in ColumnSets, ghost \in [1..n -> {0, 2}]} :
           n \in 0..MaxRows}

(***************************************************************************)
(* pandas operations used by the cleaner.                                  *)
(***************************************************************************)
\* an entry of a list of labels: a column name, or a list nested in the list
Name(c) == [nested |-> FALSE, v |-> <<c>>]
Nested(list) == [nested |-> TRUE, v |-> list]

Names(list) == [i \in 1..Len(list) |-> Name(list[i])]

\* what a call gave: the value it returned, or the exception it raised
Returned(v) == [kind |-> "returned", exc |-> "", value |-> v]
Raised(e) == [kind |-> "raised", exc |-> e, value |-> EmptyTable]
NoResult == [kind |-> "none", exc |-> "", value |-> EmptyTable]

HasColumn(t, c) == c \in Range(t.columns)

RECURSIVE RowsWithout(_, _)
\* DataFrame.drop(index_labels): the rows whose label is not among the labels
RowsWithout(rows, labels) ==
  IF rows = <<>> THEN <<>>
  ELSE IF Head(rows).label \in labels THEN RowsWithout(Tail(rows), labels)
       ELSE <<Head(rows)>> \o RowsWithout(Tail(rows), labels)

\* data[data.vtkGhostType == 2].index
GhostIndex(t) ==
  {t.rows[i].label : i \in {j \in 1..Len(t.rows) : t.rows[j].cell["vtkGhostType"] = 2}}

\* data.drop(data[data.vtkGhostType == 2].index, inplace=True)
DropGhostRows(t) == [t EXCEPT !.rows = RowsWithout(t.rows, GhostIndex(t))]

\* a table restricted to the columns cols (a sequence of names of the table)
Project(t, cols) ==
  [columns |-> cols,
   rows |-> [i \in 1..Len(t.rows) |->
              [label |-> t.rows[i].label,
               cell |-> [c \in Range(cols) |-> t.rows[i].cell[c]]]]]

\* SelectColumns with the columns left in the table's order
SelectColumnsTableOrder(t, names) ==
  IF \A i \in 1..Len(names) : HasColumn(t, names[i])
  THEN Returned(Project(t, SelectSeqBy(t.columns, Range(names))))
  ELSE Raised("KeyError")

\* data[[names]]: the named columns in the order given; KeyError on a name
\* that is no column
SelectColumns(t, names) ==
  IF \A i \in 1..Len(names) : HasColumn(t, names[i])
  THEN Returned(Project(t, names))
  ELSE Raised("KeyError")

\* a label of a drop list is found when it is the name of a column; a nested
\* list is looked up as one label, which no column has
LabelFound(t, l) == ~l.nested /\ HasColumn(t, l.v[1])

\* data.drop(columns=labels): a new table without the labelled columns;
\* raises when some label is not found (a nested list is looked up as a tuple
\* label when it is the only entry, and is unhashable beside plain names)
DropColumns(t, labels) ==
  IF \A i \in 1..Len(labels) : LabelFound(t, labels[i])
  THEN Returned(Project(t, SelectSeqBy(t.columns,
                   Range(t.columns) \ {labels[i].v[1] : i \in 1..Len(labels)})))
  ELSE IF \E i \in 1..Len(labels) : labels[i].nested /\ Len(labels) > 1
       THEN Raised("TypeError")
       ELSE Raised("KeyError")

\* cleaned_data.reset_index(drop=True, inplace=True)
ResetIndex(t) ==
  [t EXCEPT !.rows = [i \in 1..Len(t.rows) |-> [t.rows[i] EXCEPT !.label = i - 1]]]

(***************************************************************************)
(* clean_data.                                                             *)
(***************************************************************************)
\* dim not in [2, 3] raises
DimValid(dim) == dim \in {2, 3}

\* cols_to_drop.append(['Points:0', 'Points:1', 'Points:2'])
PointsLabels(t) ==
  IF HasColumn(t, "Points:0")
  THEN <<Nested(<<"Points:0", "Points:1", "Points:2">>)>>
  ELSE <<>>

\* cols_to_drop.append('vtkGhostType')
GhostLabels(t) == IF HasColumn(t, "vtkGhostType") THEN <<Name("vtkGhostType")>> ELSE <<>>

\* the table the caller holds after the validity-flag step
AfterGhostStep(t) == IF HasColumn(t, "vtkGhostType") THEN DropGhostRows(t) ELSE t

\* PlanarLabels without the test of dim
PlanarLabelsAnyDim(t, dim) == IF HasColumn(t, "U:0") THEN <<Name("U:2")>> ELSE <<>>

\* cols_to_drop.append('U:2') when 'U:0' is a column and dim == 2
PlanarLabels(t, dim) == IF HasColumn(t, "U:0") /\ dim = 2 THEN <<Name("U:2")>> ELSE <<>>

\* cols_to_drop.extend(vars_to_drop)
CallerLabels(vars_to_drop) == IF vars_to_drop.some THEN Names(vars_to_drop.v) ELSE <<>>

\* the drop path: data.drop(columns=cols_to_drop) and reset_index
DropPath(t, dim, vars_to_drop) ==
  LET cols_to_drop == PointsLabels(t) \o GhostLabels(t) \o PlanarLabels(t, dim)
                        \o CallerLabels(vars_to_drop)
      dropped == DropColumns(t, cols_to_drop)
  IN  IF dropped.kind = "returned" THEN Returned(ResetIndex(dropped.value)) ELSE dropped

\* the keep-list path: data[[vars_to_keep]]
KeepPath(t, vars_to_keep) == SelectColumns(t, vars_to_keep.v)

\* clean_data with the test of dim made after the validity-flag step
clean_data_late_dim_check(t, dim, vars_to_drop, vars_to_keep) ==
  LET d == AfterGhostStep(t)
  IN  IF ~DimValid(dim) THEN [data |-> d, out |-> Raised("ValueError")]
      ELSE [data |-> d,
            out |-> IF vars_to_keep.some THEN KeepPath(d, vars_to_keep)
                    ELSE DropPath(d, dim, vars_to_drop)]

\* keyfi.dimred.clean_data: [data |-> the caller's table after the call,
\*                           out  |-> what the call returned or raised]
clean_data(t, dim, vars_to_drop, vars_to_keep) ==
  IF ~DimValid(dim) THEN [data |-> t, out |-> Raised("ValueError")]
  ELSE LET d == AfterGhostStep(t)
       IN  [data |-> d,
            out |-> IF vars_to_keep.some THEN KeepPath(d, vars_to_keep)
                    ELSE DropPath(d, dim, vars_to_drop)]

\* dimred_interactive.clean_data: the same cleaner without a keep-list
clean_data_interactive(t, dim, vars_to_drop) ==
  IF ~DimValid(dim) THEN [data |-> t, out |-> Raised("ValueError")]
  ELSE LET d == AfterGhostStep(t)
       IN  [data |-> d, out |-> DropPath(d, dim, vars_to_drop)]

(***************************************************************************)
(* The calls of the model.                                                 *)
(***************************************************************************)
Dims == {2, 3, 4}
DropLists == {None, Some(<<"A">>), Some(<<"Z">>)}
KeepLists == {None, Some(<<"A">>), Some(<<"U:0", "A">>), Some(<<"Z">>)}

NoCall == [fn |-> "none"]
NoClusterer == [family |-> "none"]

Init ==
  /\ data \in Tables
  /\ data0 = data
  /\ call = NoCall
  /\ result = NoResult
  /\ calls = <<>>
  /\ clusterer = NoClusterer

CleanData ==
  \E dim \in Dims, vars_to_drop \in DropLists, vars_to_keep \in KeepLists :
    LET r == clean_data(data, dim, vars_to_drop, vars_to_keep)
    IN  /\ data0' = data
        /\ call' = [fn |-> "keyfi.clean_data", dim |-> dim,
                    vars_to_drop |-> vars_to_drop, vars_to_keep |-> vars_to_keep]
        /\ data' = r.data
        /\ result' = r.out
        /\ UNCHANGED <<calls, clusterer>>

CleanDataInteractive ==
  \E dim \in Dims, vars_to_drop \in DropLists :
    LET r == clean_data_interactive(data, dim, vars_to_drop)
    IN  /\ data0' = data
        /\ call' = [fn |-> "interactive.clean_data", dim |-> dim,
                    vars_to_drop |-> vars_to_drop, vars_to_keep |-> None]
        /\ data' = r.data
        /\ result' = r.out
        /\ UNCHANGED <<calls, clusterer>>

Next == CleanData \/ CleanDataInteractive

Spec == Init /\ [][Next]_vars

(***************************************************************************)
(* Properties of clean_data.                                               *)
(***************************************************************************)
Called == call.fn \in {"keyfi.clean_data", "interactive.clean_data"}
OnKeepPath == call.fn = "keyfi.clean_data" /\ DimValid(call.dim) /\ call.vars_to_keep.some
OnDropPath == Called /\ DimValid(call.dim) /\ ~call.vars_to_keep.some

PointsColumns == {"Points:0", "Points:1", "Points:2"}
UColumns == {"U:0", "U:1", "U:2"}

\* the columns of the returned table hold, row by row, the values the
\* caller's table held before the call
SameValues(before, after) ==
  /\ Len(after.rows) = Len(before.rows)
  /\ \A i \in 1..Len(after.rows) : \A c \in Range(after.columns) :
       after.rows[i].cell[c] = before.rows[i].cell[c]

\* the row labels of a table are 0, 1, ..., n-1 in order
DenseLabels(t) == \A i \in 1..Len(t.rows) : t.rows[i].label = i - 1

\* C1: with a keep-list naming existing columns and dim in {2, 3}, the
\* returned table has exactly the columns of vars_to_keep in the order
\* given, whatever vars_to_drop and dim are: any other dim in {2, 3} and any
\* other vars_to_drop give the same result.
C1_KeepListPrecedence ==
  (OnKeepPath /\ \A i \in 1..Len(call.vars_to_keep.v) : HasColumn(data0, call.vars_to_keep.v[i]))
    => /\ result.kind = "returned"
       /\ result.value.columns = call.vars_to_keep.v
       /\ \A i \in 1..Len(result.value.rows) :
            DOMAIN result.value.rows[i].cell = Range(call.vars_to_keep.v)
       /\ \A dim \in {2, 3}, vars_to_drop \in DropLists :
            clean_data(data0, dim, vars_to_drop, call.vars_to_keep).out = result

\* a keep-list in another order than the table's, with a vars_to_drop naming
\* one of the kept columns and the planar rule applicable
C1_Witness ==
  /\ OnKeepPath
  /\ call.vars_to_keep = Some(<<"U:0", "A">>)
  /\ call.vars_to_drop = Some(<<"A">>)
  /\ call.dim = 2
  /\ UColumns \subseteq Range(data0.columns)
  /\ result.kind = "returned"
  /\ Len(result.value.rows) = MaxRows

\* C2: after any call of clean_data, returned or raised, the caller's table
\* has the rows, row labels and columns it had before the call.
C2_CallerTableUnchanged == Called => data = data0

\* C3: on the drop path, with the three spatial-coordinate columns in the
\* table (and every other label to drop naming a column), the call returns a
\* table without them in which every column not targeted by a drop rule is
\* still present.
C3_SpatialColumnsDropped ==
  ( /\ OnDropPath
    /\ PointsColumns \subseteq Range(data0.columns)
    /\ \A i \in 1..Len(CallerLabels(call.vars_to_drop)) :
         LabelFound(data0, CallerLabels(call.vars_to_drop)[i])
    /\ \A i \in 1..Len(PlanarLabels(data0, call.dim)) :
         LabelFound(data0, PlanarLabels(data0, call.dim)[i]) )
    => /\ result.kind = "returned"
       /\ Range(result.value.columns) \cap PointsColumns = {}
       /\ Range(data0.columns)
            \ (PointsColumns \cup {"vtkGhostType"} \cup {"U:2"} \cup Range(call.vars_to_drop.v))
            \subseteq Range(result.value.columns)

\* C4: on the drop path, for a table with U:0, U:1, U:2 and neither spatial
\* coordinates nor a validity flag, and no vars_to_drop: dim = 2 returns the
\* table without U:2, every other column kept in place with its values;
\* dim = 3 returns every column.
C4_PlanarVectorRule ==
  ( /\ OnDropPath
    /\ UColumns \subseteq Range(data0.columns)
    /\ Range(data0.columns) \cap (PointsColumns \cup {"vtkGhostType"}) = {}
    /\ call.vars_to_drop = None )
    => /\ result.kind = "returned"
       /\ result.value.columns =
            IF call.dim = 2 THEN SelectSeqBy(data0.columns, Range(data0.columns) \ {"U:2"})
            ELSE data0.columns
       /\ \A i \in 1..Len(result.value.rows) :
            DOMAIN result.value.rows[i].cell = Range(result.value.columns)
       /\ SameValues(data0, result.value)

C4_Witness ==
  /\ OnDropPath
  /\ call.dim = 2
  /\ call.vars_to_drop = None
  /\ data0.columns = <<"A", "U:0", "U:1", "U:2">>
  /\ Len(data0.rows) = MaxRows
  /\ result.kind = "returned"
  /\ result.value.columns = <<"A", "U:0", "U:1">>

\* C5: a call with dim outside {2, 3} raises ValueError, on the drop path
\* and on the keep-list path, and leaves the caller's table as it was.
C5_InvalidDimRejected ==
  (Called /\ call.dim \notin {2, 3})
    => /\ result = Raised("ValueError")
       /\ data = data0

\* a keep-list call with dim = 4 on a table holding rows flagged invalid
C5_Witness ==
  /\ call.fn = "keyfi.clean_data"
  /\ call.dim = 4
  /\ call.vars_to_keep.some
  /\ HasColumn(data0, "vtkGhostType")
  /\ GhostIndex(data0) # {}
  /\ result.kind = "raised"

\* C6: every table clean_data returns has the row labels 0, 1, ..., n-1 in
\* order, on the drop path and on the keep-list path.
C6_DenseReindexing == (Called /\ result.kind = "returned") => DenseLabels(result.value)

(***************************************************************************)
(* scale_data.  A scaled value is kept exact: num / den, or num / sqrt(den)*)
(* when root is set.  An array (numpy ndarray) is [rows |-> the rows, each *)
(* a sequence of values]: it has no labels.                                *)
(***************************************************************************)
MaxScaleRows == 3

RECURSIVE Sum(_)
Sum(s) == IF s = <<>> THEN 0 ELSE Head(s) + Sum(Tail(s))

Abs(x) == IF x < 0 THEN -x ELSE x
Min(S) == CHOOSE x \in S : \A y \in S : x <= y
Max(S) == CHOOSE x \in S : \A y \in S : y <= x

ColumnValues(t, c) == [i \in 1..Len(t.rows) |-> t.rows[i].cell[c]]

\* MinMaxScaler: (x - min) / (max - min), a zero range scaling by 1
MinMaxScaled(x, col) ==
  LET lo == Min(Range(col))
      hi == Max(Range(col))
  IN  [num |-> x - lo, den |-> IF hi = lo THEN 1 ELSE hi - lo, root |-> FALSE]

\* MaxAbsScaler: x / max|x|, a zero maximum scaling by 1
MaxAbsScaled(x, col) ==
  LET m == Max({Abs(v) : v \in Range(col)})
  IN  [num |-> x, den |-> IF m = 0 THEN 1 ELSE m, root |-> FALSE]

\* StandardScaler: (x - mean) / std with the population std, a zero std
\* scaling by 1; with n values of sum s and sum of squares q this is
\* (n x - s) / sqrt(n q - s s)
StandardScaled(x, col) ==
  LET n == Len(col)
      s == Sum(col)
      q == Sum([i \in 1..n |-> col[i] * col[i]])
  IN  [num |-> n * x - s, den |-> IF n * q = s * s THEN n * n ELSE n * q - s * s,
       root |-> TRUE]

Scaled(scaler, x, col) ==
  IF scaler = "MinMaxScaler" THEN MinMaxScaled(x, col)
  ELSE IF scaler = "StandardScaler" THEN StandardScaled(x, col)
  ELSE MaxAbsScaled(x, col)

\* <Scaler>().fit_transform(data): every column scaled by itself, as an array
FitTransform(t, scaler) ==
  [rows |-> [i \in 1..Len(t.rows) |->
              [j \in 1..Len(t.columns) |->
                Scaled(scaler, t.rows[i].cell[t.columns[j]], ColumnValues(t, t.columns[j]))]]]

\* scaled_data = data.copy(); scaled_data[feature] = <Scaler>().fit_transform(...)
ScaleFeature(t, scaler, feature) ==
  [t EXCEPT !.rows = [i \in 1..Len(t.rows) |->
     [t.rows[i] EXCEPT !.cell[feature] =
        Scaled(scaler, t.rows[i].cell[feature], ColumnValues(t, feature))]]]

Scalers == {"MinMaxScaler", "StandardScaler", "MaxAbsScaler"}

\* keyfi.dimred.scale_data
scale_data(t, scaler, feature) ==
  IF scaler \notin Scalers THEN Raised("ValueError")
  ELSE IF ~HasColumn(t, feature) THEN Raised("ValueError")
  ELSE IF feature = "All" THEN Returned(FitTransform(t, scaler))
  ELSE Returned(ScaleFeature(t, scaler, feature))

\* dimred_interactive.scale_data
scale_data_interactive(t) == Returned(FitTransform(t, "StandardScaler"))

(***************************************************************************)
(* embed_data.  The reducers are external: a fit on n rows gives an        *)
(* embedding of n rows and n_components columns, or raises when the        *)
(* algorithm rejects its parameters.                                       *)
(***************************************************************************)
Algorithms == {"UMAP", "TSNE"}

Embedding(n, d) == [shape |-> <<n, d>>]

\* reducer = algorithm(**params) and the fit: [out, calls]
Reduce(algorithm, x, params, log) ==
  IF algorithm = "UMAP"
  THEN IF params.accepted
       THEN [out |-> Returned([embedding |-> Embedding(Len(x.rows), params.n_components),
                               mapper |-> "UMAP"]),
             calls |-> log \o <<"reducer", "fit", "transform">>]
       ELSE [out |-> Raised("AlgorithmError"), calls |-> log \o <<"reducer", "fit">>]
  ELSE IF params.accepted
       THEN [out |-> Returned([embedding |-> Embedding(Len(x.rows), params.n_components),
                               mapper |-> "None"]),
             calls |-> log \o <<"reducer", "fit_transform">>]
       ELSE [out |-> Raised("AlgorithmError"), calls |-> log \o <<"reducer", "fit_transform">>]

\* embed_data with the algorithm checked after the scaling
embed_data_scale_first(t, algorithm, scale, scaler, feature, params) ==
  LET scaled == IF scale THEN scale_data(t, scaler, feature) ELSE Returned(t)
      log == IF scale THEN <<"scale_data">> ELSE <<>>
  IN  IF scaled.kind = "raised" THEN [out |-> scaled, calls |-> log]
      ELSE IF algorithm \notin Algorithms THEN [out |-> Raised("ValueError"), calls |-> log]
      ELSE Reduce(algorithm, scaled.value, params, log)

\* keyfi.dimred.embed_data: [out |-> what the call returned or raised,
\*                           calls |-> the collaborators it called, in order]
embed_data(t, algorithm, scale, scaler, feature, params) ==
  IF algorithm \notin Algorithms THEN [out |-> Raised("ValueError"), calls |-> <<>>]
  ELSE LET scaled == IF scale THEN scale_data(t, scaler, feature) ELSE Returned(t)
           log == IF scale THEN <<"scale_data">> ELSE <<>>
       IN  IF scaled.kind = "raised" THEN [out |-> scaled, calls |-> log]
           ELSE Reduce(algorithm, scaled.value, params, log)

\* dimred_interactive.embed_data
embed_data_interactive(t, algorithm, scale, params) ==
  IF algorithm \notin Algorithms THEN [out |-> Raised("ValueError"), calls |-> <<>>]
  ELSE LET scaled == IF scale THEN scale_data_interactive(t) ELSE Returned(t)
           log == IF scale THEN <<"scale_data">> ELSE <<>>
       IN  Reduce(algorithm, scaled.value, params, log)

\* the tables given to the scaler: at least one row and one column
ScaleColumnSets == SUBSET {"A", "U:0", "All"} \ {{}}

ConstTable(cols, n) ==
  [columns |-> SelectSeqBy(Universe, cols),
   rows |-> [i \in 1..n |-> [label |-> i - 1, cell |-> [c \in cols |-> 5]]]]

ScaleTables ==
  UNION {{NewTable(cols, n, [i \in 1..n |-> 0]) : cols \in ScaleColumnSets}
           \cup {ConstTable(cols, n) : cols \in ScaleColumnSets} : n \in 1..MaxScaleRows}

ScalerNames == Scalers \cup {"RobustScaler"}
FeatureNames == {"All", "A", "Z"}
AlgorithmNames == Algorithms \cup {"PCA"}
ParamSets == [n_components : {2, 3}, accepted : BOOLEAN]

\* scale_data and embed_data keep no state and leave their argument alone:
\* each behaviour draws a table and makes one call
InitScale ==
  /\ data \in ScaleTables
  /\ data0 = data
  /\ call = NoCall
  /\ result = NoResult
  /\ calls = <<>>
  /\ clusterer = NoClusterer

ScaleData ==
  \E scaler \in ScalerNames, feature \in FeatureNames :
    /\ call = NoCall
    /\ call' = [fn |-> "keyfi.scale_data", scaler |-> scaler, feature |-> feature]
    /\ result' = scale_data(data, scaler, feature)
    /\ data0' = data
    /\ calls' = <<>>
    /\ UNCHANGED <<data, clusterer>>

EmbedData ==
  \E algorithm \in AlgorithmNames, scale \in BOOLEAN, scaler \in ScalerNames,
     feature \in FeatureNames, params \in ParamSets :
    LET r == embed_data(data, algorithm, scale, scaler, feature, params)
    IN  /\ call = NoCall
        /\ call' = [fn |-> "keyfi.embed_data", algorithm |-> algorithm, scale |-> scale,
                    scaler |-> scaler, feature |-> feature, params |-> params]
        /\ result' = r.out
        /\ calls' = r.calls
        /\ data0' = data
        /\ UNCHANGED <<data, clusterer>>

EmbedDataInteractive ==
  \E algorithm \in AlgorithmNames, scale \in BOOLEAN, params \in ParamSets :
    LET r == embed_data_interactive(data, algorithm, scale, params)
    IN  /\ call = NoCall
        /\ call' = [fn |-> "interactive.embed_data", algorithm |-> algorithm,
                    scale |-> scale, params |-> params]
        /\ result' = r.out
        /\ calls' = r.calls
        /\ data0' = data
        /\ UNCHANGED <<data, clusterer>>

NextScale == ScaleData \/ EmbedData \/ EmbedDataInteractive

SpecScale == InitScale /\ [][NextScale]_vars

(***************************************************************************)
(* Properties of scale_data and embed_data.                                *)
(***************************************************************************)
\* C7: scale_data with a recognised scaler and feature = 'All' succeeds on
\* any table, whatever its column names, and returns an array with the
\* table's number of rows and columns.
C7_AllColumnsScaling ==
  (call.fn = "keyfi.scale_data" /\ call.scaler \in Scalers /\ call.feature = "All")
    => /\ result.kind = "returned"
       /\ Len(result.value.rows) = Len(data0.rows)
       /\ \A i \in 1..Len(result.value.rows) :
            Len(result.value.rows[i]) = Len(data0.columns)

\* C8: embed_data with an algorithm other than UMAP and TSNE raises
\* ValueError having called neither the scaler, nor the reducer's
\* constructor, nor a fit or a transform.
C8_EmbedValidatesFirst ==
  (call.fn \in {"keyfi.embed_data", "interactive.embed_data"}
     /\ call.algorithm \notin Algorithms)
    => /\ result = Raised("ValueError")
       /\ calls = <<>>

\* an unsupported algorithm with scaling asked for, on arguments with which
\* the scaling would have been done
C8_Witness ==
  /\ call.fn = "keyfi.embed_data"
  /\ call.algorithm = "PCA"
  /\ call.scale
  /\ scale_data(data0, call.scaler, call.feature).kind = "returned"
  /\ call.params.accepted
  /\ result.kind = "raised"

(***************************************************************************)
(* cluster_embedding, _set_cluster_member_colors and plot_clustering.      *)
(* A clusterer handle is what the external fit gives: the attributes it    *)
(* has (attrs), the labels, and per point a confidence in percent.         *)
(***************************************************************************)
MaxPoints == 2
MaxClusters == 32

LegendLimit == 12
WarnLimit == 30

ClusterAlgorithms == {"HDBSCAN", "KMeans"}

\* the non-negative labels of an array are 0 .. k-1 for some k
Consecutive(labels) ==
  \A i \in 1..Len(labels) : \A j \in 0..labels[i] : j \in Range(labels)

\* what HDBSCAN(**params).fit(embedding) can give for n points: noise (-1)
\* with confidence 0, members with a positive confidence
HdbscanFits(n) ==
  {[family |-> "HDBSCAN",
    attrs |-> {"labels_", "probabilities_"}
                \cup (IF pd THEN {"prediction_data_"} ELSE {}),
    labels_ |-> l,
    probabilities_ |-> [i \in 1..n |-> IF l[i] = -1 THEN 0 ELSE p[i]]] :
     l \in {x \in [1..n -> -1..(n - 1)] : Consecutive(x)},
     p \in [1..n -> {50, 100}],
     pd \in BOOLEAN}

\* what KMeans(**params).fit(embedding) can give: every point labelled
\* with a cluster, and no probabilities_ attribute
KMeansFits(n) ==
  {[family |-> "KMeans", attrs |-> {"labels_", "cluster_centers_"},
    labels_ |-> l, probabilities_ |-> <<>>] :
     l \in {x \in [1..n -> 0..(n - 1)] : Consecutive(x)}}

Fits(algorithm, n) ==
  IF algorithm = "HDBSCAN" THEN HdbscanFits(n)
  ELSE IF algorithm = "KMeans" THEN KMeansFits(n)
  ELSE {NoClusterer}

\* dimred_interactive.cluster_embedding, fitted being what the fit gives
cluster_embedding(algorithm, fitted) ==
  IF algorithm \notin ClusterAlgorithms THEN Raised("ValueError") ELSE Returned(fitted)

\* np.size(np.unique(labels))
NUnique(labels) == Cardinality(Range(labels))

\* sns.color_palette('husl', n): n distinct colours
Husl(n) == [i \in 1..n |-> [hue |-> i - 1, of |-> n]]
Gray == [hue |-> -1, of |-> 0]

\* sns.desaturate(color, prop): the colour with its saturation scaled by prop
Desaturate(color, prop) == [color |-> color, prop |-> prop]

\* dimred_interactive._set_cluster_member_colors; membership is the argmax of
\* each point's soft membership vector, given by hdbscan when soft is set
set_cluster_member_colors(h, soft, membership) ==
  LET n_clusters == NUnique(h.labels_)
      color_palette == IF -1 \in Range(h.labels_) THEN Husl(n_clusters - 1)
                       ELSE Husl(n_clusters)
  IN  IF soft /\ "prediction_data_" \notin h.attrs THEN Raised("AttributeError")
      ELSE LET cluster_colors ==
                 IF soft
                 THEN [i \in 1..Len(membership) |-> color_palette[membership[i] + 1]]
                 ELSE [i \in 1..Len(h.labels_) |->
                         IF h.labels_[i] >= 0 THEN color_palette[h.labels_[i] + 1]
                         ELSE Gray]
           IN  IF "probabilities_" \notin h.attrs THEN Raised("AttributeError")
               ELSE Returned(
                      [colors |-> [i \in 1..Min({Len(cluster_colors), Len(h.probabilities_)}) |->
                                     Desaturate(cluster_colors[i], h.probabilities_[i])],
                       palette |-> color_palette])

\* n_clusters <= 12 with the legend drawn weakly below the limit only
UseLegendBelowLimit(n_clusters) == n_clusters < LegendLimit

\* n_clusters <= 12: the legend; otherwise the colorbar
UseLegend(n_clusters) == n_clusters <= LegendLimit

\* n_clusters > 30: the warning
Warns(n_clusters) == n_clusters > WarnLimit

\* dimred_interactive.plot_clustering: what is drawn
plot_clustering(cluster_labels, save) ==
  LET n_clusters == NUnique(cluster_labels)
  IN  Returned([warned |-> Warns(n_clusters),
                colors |-> n_clusters,
                points |-> Len(cluster_labels),
                legend |-> UseLegend(n_clusters),
                colorbar |-> ~UseLegend(n_clusters),
                output |-> IF save THEN "savefig" ELSE "show"])

\* the label arrays given to the plot: k clusters, with or without noise
LabelArray(k, noise) ==
  IF noise THEN [i \in 1..(k + 1) |-> i - 2] ELSE [i \in 1..k |-> i - 1]

LabelArrays == {LabelArray(k, noise) : k \in 0..MaxClusters, noise \in BOOLEAN}

InitCluster ==
  /\ data = EmptyTable
  /\ data0 = data
  /\ call = NoCall
  /\ result = NoResult
  /\ calls = <<>>
  /\ clusterer = NoClusterer

ClusterEmbedding ==
  \E algorithm \in ClusterAlgorithms \cup {"DBSCAN"}, n \in 1..MaxPoints :
    \E fitted \in Fits(algorithm, n) :
      LET r == cluster_embedding(algorithm, fitted)
      IN  /\ clusterer = NoClusterer
          /\ call' = [fn |-> "cluster_embedding", algorithm |-> algorithm, points |-> n]
          /\ result' = r
          /\ clusterer' = IF r.kind = "returned" THEN r.value ELSE clusterer
          /\ UNCHANGED <<data, data0, calls>>

SetClusterMemberColors ==
  \E soft \in BOOLEAN :
    /\ clusterer # NoClusterer
    /\ call.fn = "cluster_embedding"
    /\ LET k == Cardinality(Range(clusterer.labels_) \ {-1})
           given == soft /\ "prediction_data_" \in clusterer.attrs
       IN  /\ given => k >= 1
           /\ \E membership \in [1..Len(clusterer.labels_) -> 0..(IF given THEN k - 1 ELSE 0)] :
                /\ call' = [fn |-> "_set_cluster_member_colors", soft |-> soft]
                /\ result' = set_cluster_member_colors(clusterer, soft, membership)
    /\ UNCHANGED <<data, data0, calls, clusterer>>

PlotClustering ==
  \E cluster_labels \in LabelArrays, save \in BOOLEAN :
    /\ call = NoCall
    /\ call' = [fn |-> "plot_clustering", cluster_labels |-> cluster_labels, save |-> save]
    /\ result' = plot_clustering(cluster_labels, save)
    /\ UNCHANGED <<data, data0, calls, clusterer>>

NextCluster == ClusterEmbedding \/ SetClusterMemberColors \/ PlotClustering

SpecCluster == InitCluster /\ [][NextCluster]_vars

(***************************************************************************)
(* Properties of the colorizer and of the hard-cluster view.               *)
(***************************************************************************)
\* the membership confidence of point i, in percent: 100 for every point of
\* a centroid-based clusterer
Confidence(h, i) == IF h.family = "KMeans" THEN 100 ELSE h.probabilities_[i]

\* the number of distinct non-negative labels
ClusterCount(labels) == Cardinality({l \in Range(labels) : l >= 0})

\* C9: for a handle of either family, colorize with soft off returns one
\* colour per point: the palette entry of the point's hard label (gray for
\* noise) at the point's confidence, which is 100 percent for KMeans.
C9_HardColoringBothFamilies ==
  (call.fn = "_set_cluster_member_colors" /\ ~call.soft)
    => /\ result.kind = "returned"
       /\ Len(result.value.colors) = Len(clusterer.labels_)
       /\ \A i \in 1..Len(clusterer.labels_) :
            result.value.colors[i] =
              Desaturate(IF clusterer.labels_[i] >= 0
                         THEN Husl(ClusterCount(clusterer.labels_))[clusterer.labels_[i] + 1]
                         ELSE Gray,
                         Confidence(clusterer, i))

MaxSamples == 3

ArrayOrder == <<"A", "U", "V", "vtkGhostType", "TimeValue">>

ArrayId(name) == CHOOSE i \in 1..Len(ArrayOrder) : ArrayOrder[i] = name

\* the value the mesh holds for component k of array name at sample s
MeshValue(name, s, k) == 100 * ArrayId(name) + 10 * s + k

RECURSIVE PickFrom(_, _, _)
\* the entries of s at the positions in keep, from position i on, in order
PickFrom(s, keep, i) ==
  IF i > Len(s) THEN <<>>
  ELSE IF i \in keep THEN <<s[i]>> \o PickFrom(s, keep, i + 1)
       ELSE PickFrom(s, keep, i + 1)

Pick(s, keep) == PickFrom(s, keep, 1)

ArrayNames(m) == [i \in 1..Len(m.arrays) |-> m.arrays[i].name]

\* mesh.get_array(name)
GetArray(m, name) == CHOOSE a \in Range(m.arrays) : a.name = name

\* np.size(array)
Size(a) == Len(a.data) * a.width

\* mesh.threshold(value=[0, 0.99], scalars='vtkGhostType', preference='cell'):
\* the cells whose flag is in the range, the points they use, and every
\* array restricted to them
Threshold(m) ==
  LET ghost == GetArray(m, "vtkGhostType")
      keptCells == {i \in 1..Len(m.cells) : ghost.data[i][1] = 0}
      keptIds == UNION {m.cells[i] : i \in keptCells}
      keptPoints == {j \in 1..Len(m.points) : m.points[j] \in keptIds}
  IN  [m EXCEPT
         !.points = Pick(m.points, keptPoints),
         !.cells = Pick(m.cells, keptCells),
         !.arrays = [i \in 1..Len(m.arrays) |->
                       IF m.arrays[i].assoc = "point"
                       THEN [m.arrays[i] EXCEPT !.data = Pick(m.arrays[i].data, keptPoints)]
                       ELSE IF m.arrays[i].assoc = "cell"
                       THEN [m.arrays[i] EXCEPT !.data = Pick(m.arrays[i].data, keptCells)]
                       ELSE m.arrays[i]]]

\* pd.DataFrame(np.transpose([arrays]), columns=[names]): one column per
\* array, the arrays being 1-D and of one length; unlike shapes raise.  What
\* an empty list of arrays gives is pandas' choice (empty_frame): the empty
\* frame, or a ValueError for the shape
Frame(as, empty_frame) ==
  IF as = <<>>
  THEN IF empty_frame THEN Returned(EmptyTable) ELSE Raised("ValueError")
  ELSE IF \E i \in 1..Len(as) : as[i].ndim # 1 \/ Len(as[i].data) # Len(as[1].data)
  THEN Raised("ValueError")
  ELSE Returned(
         [columns |-> [i \in 1..Len(as) |-> as[i].name],
          rows |-> [r \in 1..Len(as[1].data) |->
                     [label |-> r - 1,
                      cell |-> [c \in {as[i].name : i \in 1..Len(as)} |->
                                 (CHOOSE a \in Range(as) : a.name = c).data[r][1]]]]])

\* [vector_name + ':' + str(i) for i in range(dim)]
ComponentNames(name, dim) == [i \in 1..dim |-> name \o ":" \o ToString(i - 1)]

\* df[[names]] = array: the columns of a 2-D array set under the names; an
\* empty frame takes the array's rows, any other needs as many rows
AssignColumns(df, names, a) ==
  IF Len(names) # a.width THEN Raised("ValueError")
  ELSE IF df.columns # <<>> /\ Len(df.rows) # Len(a.data) THEN Raised("ValueError")
  ELSE Returned(
         [columns |-> df.columns \o SelectSeqBy(names, Range(names) \ Range(df.columns)),
          rows |-> [r \in 1..Len(a.data) |->
                     [label |-> r - 1,
                      cell |-> [c \in Range(df.columns) \cup Range(names) |->
                                 IF c \in Range(names)
                                 THEN a.data[r][CHOOSE k \in 1..Len(names) : names[k] = c]
                                 ELSE df.rows[r].cell[c]]]]])

\* np.size(mesh.get_array(var_name)) != mesh.n_points
IsVector(m, a) == Size(a) # Len(m.points)

RECURSIVE AddVectors(_, _, _)
\* the loop over vector_names: a 1-D array is passed over, any other is
\* split into one column per component
AddVectors(out, m, names) ==
  IF out.kind = "raised" \/ names = <<>> THEN out
  ELSE LET a == GetArray(m, Head(names))
       IN  IF a.ndim = 1 THEN AddVectors(out, m, Tail(names))
           ELSE AddVectors(AssignColumns(out.value, ComponentNames(a.name, a.width), a),
                           m, Tail(names))

\* keyfi.dimred.import_vtk_data
import_vtk_data(mesh, empty_frame) ==
  LET m == IF "vtkGhostType" \in Range(ArrayNames(mesh)) THEN Threshold(mesh) ELSE mesh
      vector_names == SelectSeqBy(ArrayNames(m),
                                  {a.name : a \in {x \in Range(m.arrays) : IsVector(m, x)}})
      var_names == SelectSeqBy(ArrayNames(m), Range(ArrayNames(m)) \ Range(vector_names))
      df == Frame([i \in 1..Len(var_names) |-> GetArray(m, var_names[i])], empty_frame)
      out == AddVectors(df, m, vector_names)
  IN  IF out.kind = "raised" THEN out ELSE Returned([df |-> out.value, mesh |-> m])

\* dimred_interactive.import_vtk_data
import_vtk_data_interactive(mesh, empty_frame) ==
  LET var_names_to_drop == {"U", "vtkGhostType"}
                             \cup (IF mesh.multiblock THEN {"TimeValue"} ELSE {})
      var_names == SelectSeqBy(ArrayNames(mesh), Range(ArrayNames(mesh)) \ var_names_to_drop)
      df == Frame([i \in 1..Len(var_names) |-> GetArray(mesh, var_names[i])], empty_frame)
  IN  IF df.kind = "raised" THEN df
      ELSE IF "U" \notin Range(ArrayNames(mesh)) THEN Raised("KeyError")
      ELSE LET out == AssignColumns(df.value, <<"U:0", "U:1", "U:2">>, GetArray(mesh, "U"))
           IN  IF out.kind = "raised" THEN out
               ELSE Returned([df |-> out.value, mesh |-> mesh])

\* the meshes read: n points, as n one-point cells or as one cell; the
\* physical arrays A (scalar), U (3 components), V (2 components) all point
\* data or all cell data; cell flags vtkGhostType; TimeValue on a MultiBlock
WidthOf(name) == IF name = "U" THEN 3 ELSE IF name = "V" THEN 2 ELSE 1

NewArray(name, assoc, samples) ==
  [name |-> name, assoc |-> assoc,
   ndim |-> IF WidthOf(name) = 1 THEN 1 ELSE 2,
   width |-> WidthOf(name),
   data |-> [s \in 1..samples |-> [k \in 1..WidthOf(name) |-> MeshValue(name, s, k - 1)]]]

GhostArray(flags) ==
  [name |-> "vtkGhostType", assoc |-> "cell", ndim |-> 1, width |-> 1,
   data |-> [s \in 1..Len(flags) |-> <<flags[s]>>]]

CellLayouts(n) == {[i \in 1..n |-> {i}], <<1..n>>}

NewMesh(n, cells, assoc, names, flags, multiblock) ==
  [multiblock |-> multiblock,
   points |-> [i \in 1..n |-> i],
   cells |-> cells,
   arrays |->
     LET samples == IF assoc = "point" THEN n ELSE Len(cells)
         physical == SelectSeqBy(ArrayOrder, names)
     IN  [i \in 1..Len(physical) |-> NewArray(physical[i], assoc, samples)]
           \o (IF flags.some THEN <<GhostArray(flags.v)>> ELSE <<>>)
           \o (IF multiblock THEN <<NewArray("TimeValue", "field", 1)>> ELSE <<>>)]

Meshes ==
  UNION {UNION {{NewMesh(n, cells, assoc, names, flags, multiblock) :
                   assoc \in {"point", "cell"}, names \in SUBSET {"A", "U", "V"},
                   flags \in {None} \cup {Some(f) : f \in [1..Len(cells) -> {0, 2}]},
                   multiblock \in BOOLEAN} :
                cells \in CellLayouts(n)} :
         n \in 1..MaxSamples}

InitImport ==
  /\ data = EmptyTable
  /\ data0 = data
  /\ call = NoCall
  /\ result = NoResult
  /\ calls = <<>>
  /\ clusterer = NoClusterer

\* data, mesh = import_vtk_data(path)
ImportVtkData ==
  \E mesh \in {m \in Meshes : ~m.multiblock}, empty_frame \in BOOLEAN :
    LET r == import_vtk_data(mesh, empty_frame)
    IN  /\ call = NoCall
        /\ call' = [fn |-> "keyfi.import_vtk_data", mesh |-> mesh]
        /\ result' = r
        /\ data' = IF r.kind = "returned" THEN r.value.df ELSE data
        /\ data0' = data
        /\ UNCHANGED <<calls, clusterer>>

ImportVtkDataInteractive ==
  \E mesh \in Meshes, empty_frame \in BOOLEAN :
    LET r == import_vtk_data_interactive(mesh, empty_frame)
    IN  /\ call = NoCall
        /\ call' = [fn |-> "interactive.import_vtk_data", mesh |-> mesh]
        /\ result' = r
        /\ data' = IF r.kind = "returned" THEN r.value.df ELSE data
        /\ data0' = data
        /\ UNCHANGED <<calls, clusterer>>

NextImport == ImportVtkData \/ ImportVtkDataInteractive

SpecImport == InitImport /\ [][NextImport]_vars

(***************************************************************************)
(* Properties of import_vtk_data.                                          *)
(***************************************************************************)
\* the arrays of a mesh without validity flags and without a time value
PhysicalOnly(m) ==
  /\ ~m.multiblock
  /\ \A a \in Range(m.arrays) : a.name \in {"A", "U", "V"}

\* C11: for a mesh of N samples holding a scalar array and vector arrays of
\* width d > 1, import_vtk_data returns a table of N rows with unique column
\* names: one column per scalar under its own name and, per vector V, the
\* columns V:0 .. V:{d-1} in component order, V:i holding component i of
\* every sample in sample order.
C11_Flattening ==
  ( /\ call.fn \in {"keyfi.import_vtk_data", "interactive.import_vtk_data"}
    /\ PhysicalOnly(call.mesh)
    /\ \E a \in Range(call.mesh.arrays) : a.ndim = 1
    /\ \E a \in Range(call.mesh.arrays) : a.ndim = 2 )
    => LET as == call.mesh.arrays
           expected == {a.name : a \in {x \in Range(as) : x.ndim = 1}}
                         \cup UNION {Range(ComponentNames(a.name, a.width)) :
                                       a \in {x \in Range(as) : x.ndim = 2}}
       IN  /\ result.kind = "returned"
           /\ Len(result.value.df.rows) = Len(as[1].data)
           /\ Cardinality(Range(result.value.df.columns)) = Len(result.value.df.columns)
           /\ Range(result.value.df.columns) = expected
           /\ \A a \in Range(as) : \A r \in 1..Len(a.data) :
                IF a.ndim = 1 THEN result.value.df.rows[r].cell[a.name] = a.data[r][1]
                ELSE \A k \in 1..a.width :
                       /\ result.value.df.rows[r].cell[ComponentNames(a.name, a.width)[k]]
                            = a.data[r][k]
                       /\ \A j \in 1..(k - 1) :
                            (CHOOSE x \in 1..Len(result.value.df.columns) :
                               result.value.df.columns[x] = ComponentNames(a.name, a.width)[j])
                            < (CHOOSE x \in 1..Len(result.value.df.columns) :
                                 result.value.df.columns[x] = ComponentNames(a.name, a.width)[k])

(***************************************************************************)
(* Cleaning the cleaned table again: cleaned = clean_data(data, ...) and   *)
(* then clean_data(cleaned, ...), by the same cleaner.  The second call    *)
(* keeps the first in its record (first).                                  *)
(***************************************************************************)
CleanFirst == call = NoCall /\ CleanData

CleanFirstInteractive == call = NoCall /\ CleanDataInteractive

CleanReturned ==
  /\ call.fn \in {"keyfi.clean_data", "interactive.clean_data"}
  /\ "first" \notin DOMAIN call
  /\ result.kind = "returned"
  /\ \E dim \in Dims, vars_to_drop \in DropLists,
        vars_to_keep \in (IF call.fn = "keyfi.clean_data" THEN KeepLists ELSE {None}) :
       LET r == IF call.fn = "keyfi.clean_data"
                THEN clean_data(result.value, dim, vars_to_drop, vars_to_keep)
                ELSE clean_data_interactive(result.value, dim, vars_to_drop)
       IN  /\ data0' = result.value
           /\ call' = [fn |-> call.fn, dim |-> dim, vars_to_drop |-> vars_to_drop,
                       vars_to_keep |-> vars_to_keep, first |-> call]
           /\ data' = r.data
           /\ result' = r.out
  /\ UNCHANGED <<calls, clusterer>>

NextAgain == CleanFirst \/ CleanFirstInteractive \/ CleanReturned

SpecAgain == Init /\ [][NextAgain]_vars

\* C12: when clean_data(t, dim) with no keep-list and no vars_to_drop has
\* returned, the same call on the returned table returns too, and returns a
\* table equal to the one it was given: same columns, rows and row labels.
C12_CleaningIdempotent ==
  ( /\ "first" \in DOMAIN call
    /\ DimValid(call.first.dim)
    /\ call.first.vars_to_drop = None /\ ~call.first.vars_to_keep.some
    /\ call.dim = call.first.dim
    /\ call.vars_to_drop = None /\ ~call.vars_to_keep.some )
    => /\ result.kind = "returned"
       /\ result.value = data0

====
